---------------------------- MODULE Spec2Model ----------------------------
(***************************************************************************)
(* Model of the Shapes Calculator backend                                  *)
(*   src/backend/application_infastructructure.py  (Shapes, Routes)        *)
(*   src/backend/shapes_models.py                  (ShapesCalculator)      *)
(*                                                                         *)
(* A request travels: Receive -> Shapes model (pydantic construction and   *)
(* the field validator) -> the route's handler -> response.  The handlers  *)
(* are plain `def` functions, so several of them may be in progress at     *)
(* once; every client slot has its own position (pc) and its own locals.   *)
(*                                                                         *)
(* Numbers.  A Python float is modelled as a record                        *)
(*     [k, n, d, p, s]                                                     *)
(* k = "fin" : the finite value (n/d) * pi^p, carried exactly (rounding to *)
(*             53 bits is not modelled);                                   *)
(* k = "nan", "inf", "ninf" : the IEEE specials, which json.loads accepts  *)
(*             as NaN, Infinity, -Infinity and pydantic's float keeps;     *)
(* k = "none": Python's None (field absent or null);                       *)
(* k = "str" : a string s (only in the health response).                   *)
(* The range of a double is modelled scaled down: FloatMax stands for      *)
(* sys.float_info.max.  A float product or sum beyond it is +-inf, and     *)
(* float ** int beyond it raises OverflowError, as in CPython.             *)
(***************************************************************************)
EXTENDS Integers, FiniteSets, Sequences, TLC

\* ------------------------------------------------------------ bounds
NumClients == 2      \* request slots that may be in progress at once
MaxIn      == 4      \* ordinary numeric inputs are MinIn..MaxIn
FloatMax   == 30     \* stands for the largest finite double
MaxTime    == 1      \* datetime.now() returns a value of 0..MaxTime

MinIn == 0 - 1

\* math.pi, as a rational, for range comparisons only
PiNum == 355
PiDen == 113

Clients == 1..NumClients

\* ------------------------------------------------------------ values
Fin(n, d, p) == [k |-> "fin", n |-> n, d |-> d, p |-> p, s |-> ""]
Num(i)   == Fin(i, 1, 0)
NoneV    == [k |-> "none", n |-> 0, d |-> 1, p |-> 0, s |-> ""]
NaN      == [k |-> "nan",  n |-> 0, d |-> 1, p |-> 0, s |-> ""]
PosInf   == [k |-> "inf",  n |-> 0, d |-> 1, p |-> 0, s |-> ""]
NegInf   == [k |-> "ninf", n |-> 0, d |-> 1, p |-> 0, s |-> ""]
Str(t)   == [k |-> "str",  n |-> 0, d |-> 1, p |-> 0, s |-> t]
Pi       == Fin(1, 1, 1)

Abs(i) == IF i < 0 THEN 0 - i ELSE i

RECURSIVE GCD(_, _)
GCD(a, b) == IF b = 0 THEN a ELSE GCD(b, a % b)

\* the value n/d * pi^p in lowest terms
Norm(n, d, p) ==
  LET g == GCD(Abs(n), d) IN
  IF n = 0 THEN Fin(0, 1, 0) ELSE Fin(n \div g, d \div g, p)

\* |n/d * pi^p| exceeds the largest finite float
TooBig(n, d, p) ==
  IF p = 0 THEN Abs(n) > FloatMax * d
  ELSE IF p = 1 THEN Abs(n) * PiNum > FloatMax * d * PiDen
  ELSE Abs(n) * PiNum * PiNum > FloatMax * d * PiDen * PiDen

Sign(v) ==
  IF v.k = "inf" THEN 1
  ELSE IF v.k = "ninf" THEN 0 - 1
  ELSE IF v.n > 0 THEN 1 ELSE IF v.n < 0 THEN 0 - 1 ELSE 0

IsInf(v) == v.k \in {"inf", "ninf"}

\* outcome of evaluating a Python expression: a value, or a raised exception
Ok(v)      == [raised |-> FALSE, msg |-> "", val |-> v]
Raise(m)   == [raised |-> TRUE, msg |-> m, val |-> NoneV]

TypeErrorMsg     == "unsupported operand type(s)"
OverflowErrorMsg == "(34, 'Numerical result out of range')"

\* a finite result rounded into the float range: overflow gives +-inf
RoundFin(n, d, p) ==
  IF TooBig(n, d, p) THEN (IF n > 0 THEN PosInf ELSE NegInf) ELSE Norm(n, d, p)

\* Python's a * b on floats/ints/None
PyMul(a, b) ==
  IF a.k \in {"none", "str"} \/ b.k \in {"none", "str"} THEN Raise(TypeErrorMsg)
  ELSE IF a.k = "nan" \/ b.k = "nan" THEN Ok(NaN)
  ELSE IF IsInf(a) \/ IsInf(b)
       THEN (IF Sign(a) * Sign(b) = 0 THEN Ok(NaN)
             ELSE IF Sign(a) * Sign(b) > 0 THEN Ok(PosInf) ELSE Ok(NegInf))
  ELSE Ok(RoundFin(a.n * b.n, a.d * b.d, a.p + b.p))

\* Python's a + b on floats/ints/None (finite operands are plain numbers, p = 0)
PyAdd(a, b) ==
  IF a.k \in {"none", "str"} \/ b.k \in {"none", "str"} THEN Raise(TypeErrorMsg)
  ELSE IF a.k = "nan" \/ b.k = "nan" THEN Ok(NaN)
  ELSE IF IsInf(a) /\ IsInf(b)
       THEN (IF a.k = b.k THEN Ok(a) ELSE Ok(NaN))
  ELSE IF IsInf(a) THEN Ok(a)
  ELSE IF IsInf(b) THEN Ok(b)
  ELSE Ok(RoundFin(a.n * b.d + b.n * a.d, a.d * b.d, a.p))

\* Python's a ** 2 on a float: overflow raises OverflowError instead of giving inf
PySquare(a) ==
  IF a.k \in {"none", "str"} THEN Raise(TypeErrorMsg)
  ELSE IF a.k = "nan" THEN Ok(NaN)
  ELSE IF IsInf(a) THEN Ok(PosInf)
  ELSE IF TooBig(a.n * a.n, a.d * a.d, a.p + a.p) THEN Raise(OverflowErrorMsg)
  ELSE Ok(Norm(a.n * a.n, a.d * a.d, a.p + a.p))

\* e1 * e2 where e1, e2 are outcomes: the first exception propagates
MulO(e1, e2) ==
  IF e1.raised THEN e1 ELSE IF e2.raised THEN e2 ELSE PyMul(e1.val, e2.val)

\* Python's v <= 0 on a float
PyLeZero(v) ==
  IF v.k = "ninf" THEN TRUE
  ELSE IF v.k = "fin" THEN v.n <= 0
  ELSE FALSE

\* ------------------------------------------------------------ ShapesCalculator
circle_area(radius) == MulO(Ok(Pi), PySquare(radius))

\* variant: math.pi*radius, the factor 2 dropped
circle_circumference_undoubled(radius) == MulO(Ok(Pi), Ok(radius))
circle_circumference(radius) == MulO(PyMul(Num(2), Pi), Ok(radius))

rectangle_area(length, width) == PyMul(length, width)

\* variant: length + width, the factor 2 dropped
rectangle_perimeter_undoubled(length, width) == PyAdd(length, width)
rectangle_perimeter(length, width) == MulO(Ok(Num(2)), PyAdd(length, width))

triangle_area(height, base) == MulO(PyMul(Fin(1, 2, 0), height), Ok(base))

\* ------------------------------------------------------------ requests
Fields == {"radius", "base", "height", "length", "width"}

ShapeRoutes == {"circle", "rectangle", "triangle"}
Routes      == ShapeRoutes \cup {"health"}

\* the values a JSON body can give a float field
InVals ==
  {NoneV, NaN, PosInf, NegInf, Num(FloatMax)} \cup {Num(i) : i \in MinIn..MaxIn}

Bodies == [Fields -> InVals]

NoBody == [f \in Fields |-> NoneV]

Body1(f, v) == [NoBody EXCEPT ![f] = v]
Body2(f, v, g, w) == [NoBody EXCEPT ![f] = v, ![g] = w]

\* the bodies used when several requests are in progress at once
SmallBodies ==
  { NoBody,
    Body1("radius", Num(2)), Body1("radius", Num(FloatMax)),
    Body1("radius", Num(MinIn)),
    Body2("length", Num(2), "width", Num(3)),
    Body2("base", Num(3), "height", Num(2)) }

\* ------------------------------------------------------------ responses
EmptyDict == [x \in {} |-> NoneV]

Response(status, detail, loc, result) ==
  [status |-> status, detail |-> detail, loc |-> loc, result |-> result]

NoResponse == Response(0, "", {}, EmptyDict)

\* raise HTTPException(status_code=..., detail=...)
HTTPException(status_code, detail) == Response(status_code, detail, {}, EmptyDict)

MsgPositive == "The value you entered must be positive"

\* FastAPI's answer to a body that fails the Shapes model: 422, one error per field
RequestValidationError(loc) == Response(422, MsgPositive, loc, EmptyDict)

\* ------------------------------------------------------------ Shapes
\* @field_validator('radius', 'base', 'height', 'length', 'width')
\* variant: the validator registered for 'radius' only
ValidatedFieldsOnlyRadius == {"radius"}
ValidatedFields == Fields

\* value_must_be_positive(cls, v)
\* variants: `v < 0` for `v <= 0`; a validator that never raises
value_must_be_positive_strict(v) ==
  IF v.k # "none" /\ (v.k = "ninf" \/ (v.k = "fin" /\ v.n < 0))
  THEN Raise(MsgPositive) ELSE Ok(v)
value_must_be_positive_never(v) == Ok(v)
value_must_be_positive(v) ==
  IF v.k # "none" /\ PyLeZero(v) THEN Raise(MsgPositive) ELSE Ok(v)

\* the fields of a body whose validator raises
ShapesErrors(body) ==
  {f \in ValidatedFields : value_must_be_positive(body[f]).raised}

\* ------------------------------------------------------------ handlers' parts
\* if shape.radius is None
circle_missing(shape) == shape.radius.k = "none"

\* if shape.length is None or shape.width is None
\* variant: `and` for `or`
rectangle_missing_and(shape) == shape.length.k = "none" /\ shape.width.k = "none"
rectangle_missing(shape) == shape.length.k = "none" \/ shape.width.k = "none"

\* if shape.base is None or shape.height is None
triangle_missing(shape) == shape.base.k = "none" \/ shape.height.k = "none"

\* except Exception as e: raise HTTPException(status_code=500, detail=str(e))
\* variant: the exception swallowed into a success response
except_swallow(e) == Response(200, "", {}, EmptyDict)
except_Exception(e) == HTTPException(500, e.msg)

\* {"area": ..., "circumference": ...}
circle_result(a, ci) ==
  [f \in {"area", "circumference"} |-> IF f = "area" THEN a ELSE ci]

\* {'area': ..., 'perimeter': ...}
rectangle_result(a, pe) ==
  [f \in {"area", "perimeter"} |-> IF f = "area" THEN a ELSE pe]

\* {"area": ...}
\* variant: a result that also carries the rectangle's 'perimeter'
triangle_result_extra(a) == [f \in {"area", "perimeter"} |-> a]
triangle_result(a) == [f \in {"area"} |-> a]

\* ------------------------------------------------------------ state
VARIABLES
  pc,      \* pc[c]: "idle", "received", "handler", "try", "half", "done"
  req,     \* req[c]: the request, [route, body]
  shape,   \* shape[c]: the handler's argument, the validated Shapes model
  area,    \* area[c]: the first entry of the result dict, once evaluated
  calls,   \* calls[c]: the ShapesCalculator methods invoked for the request
  resp     \* resp[c]: the response

vars == <<pc, req, shape, area, calls, resp>>

NoRequest == [route |-> "none", body |-> NoBody]

Init ==
  /\ pc    = [c \in Clients |-> "idle"]
  /\ req   = [c \in Clients |-> NoRequest]
  /\ shape = [c \in Clients |-> NoBody]
  /\ area  = [c \in Clients |-> NoneV]
  /\ calls = [c \in Clients |-> {}]
  /\ resp  = [c \in Clients |-> NoResponse]

\* the handler's parameter `shape` of the request in slot c
\* variant: the model kept in one place shared by all requests
shape_arg_shared(c) == shape[1]
shape_arg(c) == shape[c]

\* the request ends with response r
Finish(c, r) ==
  /\ pc' = [pc EXCEPT ![c] = "done"]
  /\ resp' = [resp EXCEPT ![c] = r]

Called(c, name) == calls' = [calls EXCEPT ![c] = @ \cup {name}]

\* a request arrives: POST /circle, /rectangle, /triangle with a body, or GET /health
Receive(c, B) ==
  /\ pc[c] = "idle"
  /\ \E route \in Routes, body \in B :
       /\ route = "health" => body = NoBody
       /\ req' = [req EXCEPT ![c] = [route |-> route, body |-> body]]
  /\ pc' = [pc EXCEPT ![c] = "received"]
  /\ UNCHANGED <<shape, area, calls, resp>>

\* FastAPI builds the Shapes model from the body before the handler runs
Shapes(c) ==
  /\ pc[c] = "received"
  /\ req[c].route \in ShapeRoutes
  /\ IF ShapesErrors(req[c].body) # {}
     THEN /\ Finish(c, RequestValidationError(ShapesErrors(req[c].body)))
          /\ UNCHANGED shape
     ELSE /\ shape' = [shape EXCEPT ![c] = req[c].body]
          /\ pc' = [pc EXCEPT ![c] = "handler"]
          /\ UNCHANGED resp
  /\ UNCHANGED <<req, area, calls>>

health_check(c) ==
  /\ pc[c] = "received"
  /\ req[c].route = "health"
  /\ \E now \in 0..MaxTime :
       Finish(c, Response(200, "", {},
                [f \in {"status", "timestamp", "service"} |->
                   IF f = "status" THEN Str("healthy")
                   ELSE IF f = "timestamp" THEN Num(now)
                   ELSE Str("Shapes Calculator API")]))
  /\ UNCHANGED <<req, shape, area, calls>>

calculate_circle(c) ==
  /\ req[c].route = "circle"
  /\ \/ /\ pc[c] = "handler"
        /\ IF circle_missing(shape_arg(c))
           THEN Finish(c, HTTPException(400, "Radius is required"))
           ELSE pc' = [pc EXCEPT ![c] = "try"] /\ UNCHANGED resp
        /\ UNCHANGED <<area, calls>>
     \/ /\ pc[c] = "try"
        /\ Called(c, "circle_area")
        /\ LET e == circle_area(shape_arg(c).radius) IN
           IF e.raised
           THEN Finish(c, except_Exception(e)) /\ UNCHANGED area
           ELSE /\ area' = [area EXCEPT ![c] = e.val]
                /\ pc' = [pc EXCEPT ![c] = "half"]
                /\ UNCHANGED resp
     \/ /\ pc[c] = "half"
        /\ Called(c, "circle_circumference")
        /\ LET e == circle_circumference(shape_arg(c).radius) IN
           IF e.raised
           THEN Finish(c, except_Exception(e))
           ELSE Finish(c, Response(200, "", {}, circle_result(area[c], e.val)))
        /\ UNCHANGED area
  /\ UNCHANGED <<req, shape>>

calculate_rectangle(c) ==
  /\ req[c].route = "rectangle"
  /\ \/ /\ pc[c] = "handler"
        /\ IF rectangle_missing(shape_arg(c))
           THEN Finish(c, HTTPException(400, "Length and width are required"))
           ELSE pc' = [pc EXCEPT ![c] = "try"] /\ UNCHANGED resp
        /\ UNCHANGED <<area, calls>>
     \/ /\ pc[c] = "try"
        /\ Called(c, "rectangle_area")
        /\ LET e == rectangle_area(shape_arg(c).length, shape_arg(c).width) IN
           IF e.raised
           THEN Finish(c, except_Exception(e)) /\ UNCHANGED area
           ELSE /\ area' = [area EXCEPT ![c] = e.val]
                /\ pc' = [pc EXCEPT ![c] = "half"]
                /\ UNCHANGED resp
     \/ /\ pc[c] = "half"
        /\ Called(c, "rectangle_perimeter")
        /\ LET e == rectangle_perimeter(shape_arg(c).length, shape_arg(c).width) IN
           IF e.raised
           THEN Finish(c, except_Exception(e))
           ELSE Finish(c, Response(200, "", {}, rectangle_result(area[c], e.val)))
        /\ UNCHANGED area
  /\ UNCHANGED <<req, shape>>

calculate_triangle(c) ==
  /\ req[c].route = "triangle"
  /\ \/ /\ pc[c] = "handler"
        /\ IF triangle_missing(shape_arg(c))
           THEN Finish(c, HTTPException(400, "Base and height are required"))
           ELSE pc' = [pc EXCEPT ![c] = "try"] /\ UNCHANGED resp
        /\ UNCHANGED <<area, calls>>
     \/ /\ pc[c] = "try"
        /\ Called(c, "triangle_area")
        \* keyword call: triangle_area(base=shape.base, height=shape.height)
        /\ LET e == triangle_area(shape_arg(c).height, shape_arg(c).base) IN
           IF e.raised
           THEN Finish(c, except_Exception(e))
           ELSE Finish(c, Response(200, "", {}, triangle_result(e.val)))
        /\ UNCHANGED area
  /\ UNCHANGED <<req, shape>>

\* the response is sent; the request's model, locals and result are discarded
Deliver(c) ==
  /\ pc[c] = "done"
  /\ pc'    = [pc EXCEPT ![c] = "idle"]
  /\ req'   = [req EXCEPT ![c] = NoRequest]
  /\ shape' = [shape EXCEPT ![c] = NoBody]
  /\ area'  = [area EXCEPT ![c] = NoneV]
  /\ calls' = [calls EXCEPT ![c] = {}]
  /\ resp'  = [resp EXCEPT ![c] = NoResponse]

\* one request at a time, every body
Next ==
  \/ Receive(1, Bodies)
  \/ Shapes(1)
  \/ health_check(1)
  \/ calculate_circle(1)
  \/ calculate_rectangle(1)
  \/ calculate_triangle(1)
  \/ Deliver(1)

Spec == Init /\ [][Next]_vars

\* several requests in progress at once, interleaved step by step
NextConc ==
  \E c \in Clients :
    \/ Receive(c, SmallBodies)
    \/ Shapes(c)
    \/ health_check(c)
    \/ calculate_circle(c)
    \/ calculate_rectangle(c)
    \/ calculate_triangle(c)
    \/ Deliver(c)

SpecConc == Init /\ [][NextConc]_vars

TypeOK ==
  /\ pc \in [Clients -> {"idle", "received", "handler", "try", "half", "done"}]
  /\ \A c \in Clients : req[c].route \in Routes \cup {"none"}

\* ------------------------------------------------------------ vocabulary of the claims
Required(route) ==
  IF route = "circle" THEN {"radius"}
  ELSE IF route = "rectangle" THEN {"length", "width"}
  ELSE IF route = "triangle" THEN {"base", "height"}
  ELSE {}

MissingDetail(route) ==
  IF route = "circle" THEN "Radius is required"
  ELSE IF route = "rectangle" THEN "Length and width are required"
  ELSE "Base and height are required"

OutFields(route) ==
  IF route = "circle" THEN {"area", "circumference"}
  ELSE IF route = "rectangle" THEN {"area", "perimeter"}
  ELSE {"area"}

Present(body, f)    == body[f].k # "none"
ZeroOrNegative(v)   == (v.k = "fin" /\ v.n <= 0) \/ v.k = "ninf"
StrictlyPositive(v) == (v.k = "fin" /\ v.n > 0) \/ v.k = "inf"
NotFinite(v)        == v.k \in {"nan", "inf", "ninf"}
FinitePositive(v)   == v.k = "fin" /\ v.n > 0

\* a shape request whose response is ready
Answered(c) == pc[c] = "done" /\ req[c].route \in ShapeRoutes

LacksRequired(c)   == \E f \in Required(req[c].route) : ~Present(req[c].body, f)
HasNonPositive(c)  == \E f \in Fields : ZeroOrNegative(req[c].body[f])
\* every present field is acceptable to the positivity rule as the code applies it
PassesValidation(c) == \A f \in Fields : ~ZeroOrNegative(req[c].body[f])

\* ------------------------------------------------------------ C1
\* C1: when every present field is strictly positive and a field the shape
\* requires is absent, the answer is 400 with the shape's "... required" detail,
\* carries no result field, and no ShapesCalculator method was invoked.
C1_MissingField ==
  \A c \in Clients :
    ( /\ Answered(c)
      /\ \A f \in Fields :
           Present(req[c].body, f) => StrictlyPositive(req[c].body[f])
      /\ LacksRequired(c) )
    => /\ resp[c].status = 400
       /\ resp[c].detail = MissingDetail(req[c].route)
       /\ resp[c].result = EmptyDict
       /\ calls[c] = {}

C1_Witness ==
  \E c \in Clients :
    /\ Answered(c) /\ req[c].route = "rectangle"
    /\ ~Present(req[c].body, "length") /\ req[c].body["width"] = Num(2)
    /\ resp[c].status = 400

\* ------------------------------------------------------------ C2
\* C2: for each shape operation and each of the five fields, a present value that
\* is zero or negative makes the operation fail with the invalid-field error
\* naming that field, with no result and no computation, whether or not the
\* shape requires the field.
C2_InvalidField ==
  \A c \in Clients : \A f \in Fields :
    (Answered(c) /\ ZeroOrNegative(req[c].body[f]))
    => /\ resp[c].status # 200
       /\ resp[c].detail = MsgPositive
       /\ f \in resp[c].loc
       /\ resp[c].result = EmptyDict
       /\ calls[c] = {}

C2_Witness ==
  \E c \in Clients :
    /\ Answered(c) /\ req[c].route = "triangle"
    /\ req[c].body["radius"] = Num(0)
    /\ req[c].body["base"] = Num(2) /\ req[c].body["height"] = Num(3)
    /\ resp[c].detail = MsgPositive

\* ------------------------------------------------------------ C3
\* C3 as stated: a request that lacks a required field and carries a non-positive
\* value fails with the shape's missing-field error (400 "... required").
C3_Original ==
  \A c \in Clients :
    (Answered(c) /\ LacksRequired(c) /\ HasNonPositive(c))
    => /\ resp[c].status = 400
       /\ resp[c].detail = MissingDetail(req[c].route)

\* C3 amended: the positivity constraint is validated before required-field
\* presence: such a request fails with the invalid-field error, never with the
\* missing-field error, and the handler is not entered.
C3_Amended ==
  \A c \in Clients :
    (Answered(c) /\ LacksRequired(c) /\ HasNonPositive(c))
    => /\ resp[c].detail = MsgPositive
       /\ resp[c].detail # MissingDetail(req[c].route)
       /\ resp[c].loc = {f \in Fields : ZeroOrNegative(req[c].body[f])}

C3_Witness ==
  \E c \in Clients :
    /\ Answered(c) /\ req[c].route = "circle"
    /\ ~Present(req[c].body, "radius") /\ req[c].body["length"] = Num(0)
    /\ resp[c].detail = MsgPositive

\* ------------------------------------------------------------ C4
\* C4 as stated: a body with a non-positive dimension value is answered with 400.
C4_Original ==
  \A c \in Clients :
    (Answered(c) /\ HasNonPositive(c)) => resp[c].status = 400

\* C4 amended: a body with a non-positive dimension value is answered with
\* HTTP status 422.
C4_Amended ==
  \A c \in Clients :
    (Answered(c) /\ HasNonPositive(c)) => resp[c].status = 422

C4_Witness ==
  \E c \in Clients :
    /\ Answered(c) /\ req[c].route = "circle"
    /\ req[c].body["radius"] = Num(MinIn)
    /\ resp[c].status = 422

\* ------------------------------------------------------------ C5
\* C5: a present field whose value is NaN or infinite fails validation with the
\* invalid-field error, and no result is computed from it (stated for the
\* requests that carry every field their shape requires).
C5_Claim ==
  \A c \in Clients : \A f \in Fields :
    (Answered(c) /\ ~LacksRequired(c) /\ NotFinite(req[c].body[f]))
    => /\ resp[c].detail = MsgPositive
       /\ resp[c].result = EmptyDict
       /\ calls[c] = {}

\* ------------------------------------------------------------ C6
\* C6: every response of a shape operation is either an error with no result
\* fields, or a success whose fields are exactly the shape's outputs.
C6_NoPartialResult ==
  \A c \in Clients :
    Answered(c)
    => \/ /\ resp[c].status \in {400, 422, 500}
          /\ resp[c].detail # ""
          /\ resp[c].result = EmptyDict
       \/ /\ resp[c].status = 200
          /\ resp[c].detail = ""
          /\ DOMAIN resp[c].result = OutFields(req[c].route)

C6_Witness ==
  \E c \in Clients :
    /\ Answered(c) /\ req[c].route = "triangle"
    /\ resp[c].status = 200
    /\ DOMAIN resp[c].result = {"area"}

\* ------------------------------------------------------------ C7
RectangleExact(c) ==
  /\ resp[c].status = 200
  /\ resp[c].result["area"] =
       Num(req[c].body["length"].n * req[c].body["width"].n)
  /\ resp[c].result["perimeter"] =
       Num(2 * (req[c].body["length"].n + req[c].body["width"].n))

TriangleExact(c) ==
  /\ resp[c].status = 200
  /\ resp[c].result["area"] =
       Norm(req[c].body["base"].n * req[c].body["height"].n, 2, 0)

RectangleCase(c) ==
  /\ Answered(c) /\ req[c].route = "rectangle" /\ PassesValidation(c)
  /\ FinitePositive(req[c].body["length"]) /\ FinitePositive(req[c].body["width"])

TriangleCase(c) ==
  /\ Answered(c) /\ req[c].route = "triangle" /\ PassesValidation(c)
  /\ FinitePositive(req[c].body["base"]) /\ FinitePositive(req[c].body["height"])

\* C7 as stated: for all length, width > 0 the rectangle operation returns
\* area = length*width and perimeter = 2*(length+width); for all base, height > 0
\* the triangle operation returns area = base*height/2; whatever the other fields.
C7_Original ==
  \A c \in Clients :
    /\ RectangleCase(c) => RectangleExact(c)
    /\ TriangleCase(c) => TriangleExact(c)

RectangleInRange(c) ==
  /\ req[c].body["length"].n * req[c].body["width"].n <= FloatMax
  /\ 2 * (req[c].body["length"].n + req[c].body["width"].n) <= FloatMax

TriangleInRange(c) ==
  req[c].body["base"].n * req[c].body["height"].n <= 2 * FloatMax

\* C7 amended: the same, for the dimensions whose outputs do not exceed the
\* largest finite float.
C7_Amended ==
  \A c \in Clients :
    /\ (RectangleCase(c) /\ RectangleInRange(c)) => RectangleExact(c)
    /\ (TriangleCase(c) /\ TriangleInRange(c)) => TriangleExact(c)

C7_Witness ==
  \E c \in Clients :
    /\ RectangleCase(c) /\ RectangleInRange(c)
    /\ req[c].body["length"] = Num(3) /\ req[c].body["width"] = Num(4)
    /\ req[c].body["radius"] = NaN /\ req[c].body["base"] = Num(1)
    /\ resp[c].result["area"] = Num(12) /\ resp[c].result["perimeter"] = Num(14)

\* ------------------------------------------------------------ C8
CircleCase(c) ==
  /\ Answered(c) /\ req[c].route = "circle" /\ PassesValidation(c)
  /\ FinitePositive(req[c].body["radius"])

CircleExact(c) ==
  /\ resp[c].status = 200
  /\ resp[c].result["area"] =
       Fin(req[c].body["radius"].n * req[c].body["radius"].n, 1, 1)
  /\ resp[c].result["circumference"] = Fin(2 * req[c].body["radius"].n, 1, 1)
  /\ (resp[c].result["area"] = resp[c].result["circumference"])
       <=> (req[c].body["radius"] = Num(2))

\* C8 as stated: for all radius > 0 the circle operation returns area = pi*r^2 and
\* circumference = 2*pi*r, and the two are equal exactly when radius = 2.
C8_Original ==
  \A c \in Clients : CircleCase(c) => CircleExact(c)

CircleInRange(c) ==
  /\ req[c].body["radius"].n * req[c].body["radius"].n * PiNum <= FloatMax * PiDen
  /\ 2 * req[c].body["radius"].n * PiNum <= FloatMax * PiDen

\* C8 amended: the same, for the radii whose area and circumference do not exceed
\* the largest finite float.
C8_Amended ==
  \A c \in Clients : (CircleCase(c) /\ CircleInRange(c)) => CircleExact(c)

C8_Witness ==
  \E c \in Clients :
    /\ CircleCase(c) /\ req[c].body["radius"] = Num(2)
    /\ resp[c].result["area"] = Fin(4, 1, 1)
    /\ resp[c].result["circumference"] = Fin(4, 1, 1)

\* ------------------------------------------------------------ C9
\* the response to one request processed with nothing else in progress:
\* model construction, then the route's handler from its first line to its last
AloneHandler(route, m) ==
  IF route = "circle" THEN
    IF circle_missing(m) THEN HTTPException(400, "Radius is required")
    ELSE LET a == circle_area(m.radius)
             ci == circle_circumference(m.radius) IN
         IF a.raised THEN except_Exception(a)
         ELSE IF ci.raised THEN except_Exception(ci)
         ELSE Response(200, "", {}, circle_result(a.val, ci.val))
  ELSE IF route = "rectangle" THEN
    IF rectangle_missing(m) THEN HTTPException(400, "Length and width are required")
    ELSE LET a == rectangle_area(m.length, m.width)
             pe == rectangle_perimeter(m.length, m.width) IN
         IF a.raised THEN except_Exception(a)
         ELSE IF pe.raised THEN except_Exception(pe)
         ELSE Response(200, "", {}, rectangle_result(a.val, pe.val))
  ELSE
    IF triangle_missing(m) THEN HTTPException(400, "Base and height are required")
    ELSE LET a == triangle_area(m.height, m.base) IN
         IF a.raised THEN except_Exception(a)
         ELSE Response(200, "", {}, triangle_result(a.val))

Alone(route, body) ==
  IF ShapesErrors(body) # {} THEN RequestValidationError(ShapesErrors(body))
  ELSE AloneHandler(route, body)

\* C9: with any number of shape requests and health probes in progress and
\* interleaved in any order, the response of every shape request equals the
\* response the same request gets when processed alone, and a health probe
\* answers healthy.
C9_Independent ==
  \A c \in Clients :
    /\ Answered(c) => resp[c] = Alone(req[c].route, req[c].body)
    /\ (pc[c] = "done" /\ req[c].route = "health")
         => /\ resp[c].status = 200
            /\ resp[c].result["status"] = Str("healthy")

\* two different requests in progress at once, one answered while the other is
\* between two ShapesCalculator calls
C9_Witness ==
  \E c \in Clients : \E d \in Clients \ {c} :
    /\ Answered(c) /\ resp[c].status = 200
    /\ pc[d] = "half" /\ req[d].route # req[c].route
    /\ req[d].body # req[c].body

\* ------------------------------------------------------------ C10
\* the first exception a ShapesCalculator call raises for the request, if any
EngineFailure(route, m) ==
  IF route = "circle"
  THEN (IF circle_area(m.radius).raised THEN circle_area(m.radius)
        ELSE circle_circumference(m.radius))
  ELSE IF route = "rectangle"
  THEN (IF rectangle_area(m.length, m.width).raised
        THEN rectangle_area(m.length, m.width)
        ELSE rectangle_perimeter(m.length, m.width))
  ELSE triangle_area(m.height, m.base)

\* C10: when a ShapesCalculator call raises while the result is computed (the
\* request passed validation and the required-field check), the answer is 500
\* with the exception's message as detail and no result field.
C10_InternalError ==
  \A c \in Clients :
    ( /\ Answered(c) /\ PassesValidation(c) /\ ~LacksRequired(c)
      /\ EngineFailure(req[c].route, req[c].body).raised )
    => /\ resp[c].status = 500
       /\ resp[c].detail = EngineFailure(req[c].route, req[c].body).msg
       /\ resp[c].result = EmptyDict

C10_Witness ==
  \E c \in Clients :
    /\ Answered(c) /\ req[c].route = "circle"
    /\ req[c].body["radius"] = Num(FloatMax)
    /\ "circle_area" \in calls[c]
    /\ resp[c].status = 500
    /\ resp[c].detail = OverflowErrorMsg

=============================================================================
